---- MODULE Spec2Model ----
(***************************************************************************)
(* A model of npbackup's GUI front end (npbackup/gui/main.py): the         *)
(* coordinating UI thread, the worker threads started by @threaded         *)
(* functions, the task handles (futures) between them, and the two pure    *)
(* computations the workers run (the snapshot list and the tree data).     *)
(*                                                                         *)
(* Python values are written as follows: True, False and None are the      *)
(* strings "True", "False" and "None"; a str is a sequence of one-letter   *)
(* strings; a dict is a function from its keys, so that "key in dict" is   *)
(* "key \in DOMAIN dict" and a missing key is a KeyError.                  *)
(***************************************************************************)
EXTENDS Integers, Sequences, FiniteSets, TLC

VARIABLES
    \* ---- the coordinating (UI) thread, main_gui and the functions it calls
    pc,            \* position of the coordinating thread
    config,        \* main_gui's config argument / local
    ret,           \* call site get_gui_data returns to: "start", "backup", "loop"
    gui_data,      \* (current_state, snapshot_list) as returned by get_gui_data
    window,        \* the main window: state-button and snapshot-list
    popup,         \* last popup shown since the last main window.read
    busy,          \* message of the sg.PopupAnimated loader shown, or "none"
    thread,        \* the local "thread": index in tasks of the handle polled
    result,        \* main_gui's / restore_window's local "result"
    ui_call,       \* adapter action the coordinating thread is executing
    gg_result,     \* get_gui_data's local "result" (check-binary)
    gg_calls,      \* adapter actions invoked since get_gui_data was entered
    gg_submits,    \* tasks submitted since get_gui_data was entered
    ls_local,      \* ls_window's locals: snapshot_id, backup_content, ls_result
    backend_type,  \* main_gui's local backend_type, set once at lines 296-298
    destination_string, \* main_gui's local destination_string, unbound at first
    events,        \* the steps of main_gui since the main window was last read:
                   \* "launch-backup", "done", "result", "popup" of lines 368-397,
                   \* "destination" of line 410, "get_gui_data" and "update"
    \* ---- the task handles and their workers
    tasks,         \* the live task handles, each with its worker's state
    stdout,        \* the queue.Queue of line 375
    taken,         \* lines the coordinating thread got from stdout
    \* ---- _make_treedata_from_json run on its own (SpecTree)
    os_name,       \* os.name
    tl_input,      \* ls_result
    tl_i,          \* index of the entry the for loop is at
    treedata,      \* sg.TreeData under construction
    tl_pc          \* "loop", "returned", "raised"

vars == << pc, config, ret, gui_data, window, popup, busy, thread, result, ui_call,
           gg_result, gg_calls, gg_submits, ls_local, backend_type, destination_string,
           events, tasks, stdout, taken,
           os_name, tl_input, tl_i, treedata, tl_pc >>

gui_vars == << pc, config, ret, gui_data, window, popup, busy, thread, result, ui_call,
               gg_result, gg_calls, gg_submits, ls_local, backend_type, destination_string,
               events, tasks, stdout, taken >>

\* main_gui's locals of the right-click menu, and the record of the iteration
menu_vars == << backend_type, destination_string, events >>

tree_vars == << os_name, tl_input, tl_i, treedata, tl_pc >>

(***************************************************************************)
(* Bounds of the model.                                                    *)
(***************************************************************************)
\* longest snapshot sequence the list action returns
MaxSnapshots == 2
\* most progress lines a backup puts on its stdout queue
MaxLines == 2
\* longest sequence of tree-node records given to _make_treedata_from_json
MaxNodes == 3

(***************************************************************************)
(* Python values and str methods.                                          *)
(***************************************************************************)
PyTrue == "True"
PyFalse == "False"
None == "None"

\* bool(v) of True, False and None
Truthy(v) == v = PyTrue

\* a list or None, kept apart so that the two are never compared
PyList(items) == [is_none |-> FALSE, items |-> items]
NoneList == [is_none |-> TRUE, items |-> <<>>]

\* a dict without one of its keys
Without(d, key) == [k \in DOMAIN d \ {key} |-> d[k]]

RECURSIVE lstrip(_, _)
lstrip(s, c) == IF s # <<>> /\ Head(s) = c THEN lstrip(Tail(s), c) ELSE s

RECURSIVE rstrip(_, _)
rstrip(s, c) ==
    IF s # <<>> /\ s[Len(s)] = c THEN rstrip(SubSeq(s, 1, Len(s) - 1), c) ELSE s

\* s.rfind(c) + 1
rfind1(s, c) ==
    LET hits == {i \in 1..Len(s) : s[i] = c}
    IN  IF hits = {} THEN 0 ELSE CHOOSE i \in hits : \A j \in hits : j <= i

LowerChar(c) ==
    CASE c = "A" -> "a"
      [] c = "B" -> "b"
      [] OTHER -> c

lower(s) == [i \in 1..Len(s) |-> LowerChar(s[i])]

\* os.path.dirname: everything before the last "/", trailing slashes stripped
\* unless the head is only slashes (posixpath; ntpath agrees on such paths)
dirname(p) ==
    LET head == SubSeq(p, 1, rfind1(p, "/"))
    IN  IF head # <<>> /\ \E k \in 1..Len(head) : head[k] # "/"
        THEN rstrip(head, "/")
        ELSE head

Reverse(s) == [i \in 1..Len(s) |-> s[Len(s) + 1 - i]]

\* all sequences over S of length at most n
SeqsUpTo(S, n) == UNION {[1..k -> S] : k \in 0..n}

Lowercase == << "a", "b", "c", "d", "e", "f", "g", "h", "i", "j", "k", "l", "m",
                "n", "o", "p", "q", "r", "s", "t", "u", "v", "w", "x", "y", "z" >>
Uppercase == << "A", "B", "C", "D", "E", "F", "G", "H", "I", "J", "K", "L", "M",
                "N", "O", "P", "Q", "R", "S", "T", "U", "V", "W", "X", "Y", "Z" >>

UpperChar(c) ==
    IF \E i \in 1..Len(Lowercase) : Lowercase[i] = c
    THEN Uppercase[CHOOSE i \in 1..Len(Lowercase) : Lowercase[i] = c]
    ELSE c

upper(s) == [i \in 1..Len(s) |-> UpperChar(s[i])]

\* s.split(c)[0]: what comes before the first c, all of s without one
split_first(s, c) ==
    LET hits == {i \in 1..Len(s) : s[i] = c}
    IN  IF hits = {} THEN s
        ELSE SubSeq(s, 1, (CHOOSE i \in hits : \A j \in hits : i <= j) - 1)

\* s.split(c)[-1]: what comes after the last c, all of s without one
split_last(s, c) == SubSeq(s, rfind1(s, c) + 1, Len(s))

(***************************************************************************)
(* sg.TreeData and _make_treedata_from_json (lines 115-151).               *)
(***************************************************************************)
\* sg.TreeData(): tree_dict holds the root node under the key ""
NewTreeData ==
    [tree_dict |-> [k \in {<<>>} |-> [parent |-> <<>>, text |-> <<>>, children |-> <<>>]],
     raised |-> FALSE]

\* sg.TreeData.Insert: the node is stored under its key, then the parent is
\* looked up in tree_dict (KeyError when it is not there) and given the child
Insert(td, parent, key, text) ==
    LET node == [parent |-> parent, text |-> text, children |-> <<>>]
        d1 == [k \in DOMAIN td.tree_dict \cup {key} |->
                  IF k = key THEN node ELSE td.tree_dict[k]]
    IN  IF parent \notin DOMAIN d1
        THEN [tree_dict |-> d1, raised |-> TRUE]
        ELSE [tree_dict |-> [d1 EXCEPT ![parent].children = Append(@, key)],
              raised |-> FALSE]

\* the tree key of an entry: lines 136-140
entry_key(entry, os) ==
    LET path == lstrip(entry.path, "/")
    IN  IF os = "nt" THEN lower(path) ELSE path

\* one pass of the for loop, lines 134-150
make_treedata_entry(td, entry, os) ==
    LET path == entry_key(entry, os)
        parent == dirname(path)
    IN  IF entry.type = "dir" /\ path \notin DOMAIN td.tree_dict
        THEN Insert(td, parent, path, entry.name)
        ELSE IF entry.type = "file"
        THEN Insert(td, parent, path, entry.name)
        ELSE td

\* the whole function: the loop ends at the first entry that raises
RECURSIVE make_treedata_loop(_, _, _)
make_treedata_loop(td, entries, os) ==
    IF entries = <<>> \/ td.raised THEN td
    ELSE make_treedata_loop(make_treedata_entry(td, Head(entries), os), Tail(entries), os)

_make_treedata_from_json(ls_result, os) == make_treedata_loop(NewTreeData, ls_result, os)

\* tree-node records as the ls action gives them
Node(path, name, type) == [path |-> path, name |-> name, type |-> type]

TreeNodes ==
    { Node(<<"/", "a">>, <<"a">>, "dir"),
      Node(<<"/", "a", "/", "b">>, <<"b">>, "file"),
      Node(<<"/", "c">>, <<"c">>, "file"),
      Node(<<"/", "A">>, <<"A">>, "dir"),
      Node(<<"/", "l">>, <<"l">>, "symlink") }

TreeInit ==
    /\ os_name \in {"posix", "nt"}
    /\ tl_input \in SeqsUpTo(TreeNodes, MaxNodes)
    /\ tl_i = 1
    /\ treedata = NewTreeData
    /\ tl_pc = "loop"

\* for entry in ls_result: one entry handled without a KeyError
tree_loop ==
    /\ tl_pc = "loop"
    /\ tl_i <= Len(tl_input)
    /\ LET td == make_treedata_entry(treedata, tl_input[tl_i], os_name)
       IN  /\ ~td.raised
           /\ treedata' = td
    /\ tl_i' = tl_i + 1
    /\ UNCHANGED << os_name, tl_input, tl_pc, gui_vars >>

\* treedata.Insert raises KeyError: the function is left by the exception
tree_raise ==
    /\ tl_pc = "loop"
    /\ tl_i <= Len(tl_input)
    /\ LET td == make_treedata_entry(treedata, tl_input[tl_i], os_name)
       IN  /\ td.raised
           /\ treedata' = td
    /\ tl_pc' = "raised"
    /\ UNCHANGED << os_name, tl_input, tl_i, gui_vars >>

\* return treedata
tree_return ==
    /\ tl_pc = "loop"
    /\ tl_i > Len(tl_input)
    /\ tl_pc' = "returned"
    /\ UNCHANGED << os_name, tl_input, tl_i, treedata, gui_vars >>

(***************************************************************************)
(* The config and the adapter's results (core.runner.runner).              *)
(***************************************************************************)
RepositoryValues == { <<>>, <<"/", "d">>, <<"r", "e", "s", "t", ":", "u", "@", "h">> }
PasswordValues == { <<>>, <<"p">> }

\* config['repo'] with each of its two keys present or missing
RepoDicts ==
    { [k \in {"repository", "password"} |->
          IF k = "repository" THEN r ELSE p] : r \in RepositoryValues, p \in PasswordValues }
    \cup { [k \in {"repository"} |-> r] : r \in RepositoryValues }
    \cup { [k \in {"password"} |-> p] : p \in PasswordValues }
    \cup { [k \in {} |-> <<>>] }

Configs == { [repo |-> d] : d \in RepoDicts }

\* a snapshot record of the list and ls actions
SnapshotKeys == {"time", "username", "hostname", "short_id"}
Snapshot(i) ==
    [time |-> [seconds |-> i, microseconds |-> 7], username |-> <<"u">>,
     hostname |-> <<"h">>, short_id |-> i]

\* records the engine gives: complete ones, and ones with a field missing
SnapshotRecords ==
    { Snapshot(1), Snapshot(2) } \cup { Without(Snapshot(1), k) : k \in SnapshotKeys }

\* runner(action='list'): None, or the snapshots in engine order
ListResults == { NoneList } \cup { PyList(s) : s \in SeqsUpTo(SnapshotRecords, MaxSnapshots) }

\* runner(action='has_recent_snapshots')
StateResults == { PyTrue, PyFalse, None }

\* runner(action='ls'): None, or an iterator giving the snapshot header and
\* then the tree-node records
LsNodes ==
    { <<>>,
      << Node(<<"/", "a">>, <<"a">>, "dir"), Node(<<"/", "a", "/", "b">>, <<"b">>, "file") >>,
      << Node(<<"/", "a", "/", "b">>, <<"b">>, "file") >> }
LsResults ==
    { NoneList } \cup { PyList(<<h>> \o n) : h \in SnapshotRecords \ {Snapshot(2)}, n \in LsNodes }

\* runner(action='check-binary' | 'restore' | 'backup')
BoolResults == { PyTrue, PyFalse }

(***************************************************************************)
(* _get_gui_data, lines 66-78: the snapshot list.                          *)
(***************************************************************************)
\* dateutil.parser.parse(t).strftime("%Y-%m-%d %H:%M:%S"): to the second
strftime(t) == t.seconds

\* the list left in engine order
snapshots_not_reversed(snapshots) == snapshots

\* snapshots.reverse(), line 68
snapshots_reverse(snapshots) == Reverse(snapshots)

\* one line of the list, lines 70-76 (the four fields read raise KeyError
\* when missing)
snapshot_line(snapshot) ==
    [date |-> strftime(snapshot["time"]), username |-> snapshot["username"],
     hostname |-> snapshot["hostname"], id |-> snapshot["short_id"]]

\* lines 66-76: [raised, list]
make_snapshot_list(snapshots) ==
    IF snapshots.is_none \/ snapshots.items = <<>>
    THEN [raised |-> FALSE, list |-> <<>>]
    ELSE LET rev == snapshots_reverse(snapshots.items)
         IN  IF \E i \in 1..Len(rev) : ~(SnapshotKeys \subseteq DOMAIN rev[i])
             THEN [raised |-> TRUE, list |-> <<>>]
             ELSE [raised |-> FALSE, list |-> [i \in 1..Len(rev) |-> snapshot_line(rev[i])]]

\* line 78: return current_state, snapshot_list
_get_gui_data_value(current_state, snapshot_list) ==
    [current_state |-> current_state, snapshot_list |-> PyList(snapshot_list)]

(***************************************************************************)
(* _ls_window, lines 164-185: the header line of the content window.       *)
(***************************************************************************)
Inconnu == <<"?">>

\* lines 166-181: a missing key gives '[inconnu]'
header_field(snapshot_id, key) ==
    IF key \in DOMAIN snapshot_id THEN [known |-> TRUE, value |-> snapshot_id[key]]
    ELSE [known |-> FALSE, value |-> Inconnu]

make_backup_content(snapshot_id) ==
    [snap_date |-> header_field(snapshot_id, "time"),
     username |-> header_field(snapshot_id, "username"),
     hostname |-> header_field(snapshot_id, "hostname"),
     short_id |-> header_field(snapshot_id, "short_id")]

(***************************************************************************)
(* _gui_update_state, lines 101-112.                                       *)
(***************************************************************************)
\* the tri-state taken for a boolean: "elif not current_state" for lines 104-108
state_button_collapsed(old, current_state) ==
    IF Truthy(current_state) THEN "up_to_date" ELSE "too_old"

state_button(old, current_state) ==
    IF Truthy(current_state) THEN "up_to_date"
    ELSE IF current_state = PyFalse THEN "too_old"
    ELSE IF current_state = None THEN "not_connected"
    ELSE old

\* Listbox.Update(values): values of None leave the list as it is
_gui_update_state(w, current_state, snapshot_list) ==
    [state_button |-> state_button(w.state_button, current_state),
     snapshot_list |-> IF snapshot_list.is_none THEN w.snapshot_list ELSE snapshot_list.items]

(***************************************************************************)
(* get_gui_data, lines 82-88: is the repository configured?                *)
(***************************************************************************)
\* "not config['repo']['repository'] and not config['repo']['password']",
\* evaluated left to right, a missing key being the KeyError of line 86
not_configured(cfg) ==
    IF "repo" \notin DOMAIN cfg THEN TRUE
    ELSE IF "repository" \notin DOMAIN cfg.repo THEN TRUE
    ELSE IF cfg.repo.repository # <<>> THEN FALSE
    ELSE IF "password" \notin DOMAIN cfg.repo THEN TRUE
    ELSE cfg.repo.password = <<>>

(***************************************************************************)
(* The task runner: ofunctions.threading.threaded gives the caller a       *)
(* future and runs the function on a thread of its own.                    *)
(***************************************************************************)
Unset == [unset |-> TRUE]

NewTask(kind, arg) ==
    [kind |-> kind, arg |-> arg, wpc |-> "start", call |-> "none", done |-> FALSE,
     cancelled |-> FALSE, exc |-> "none", slot |-> Unset, runs |-> 0, writes |-> 0,
     snapshots |-> NoneList, current_state |-> None, put |-> 0]

\* handles nobody holds any more are gone: the caller's "thread" is rebound
\* and a finished worker holds no reference
LiveTasks == SelectSeq(tasks, LAMBDA t : ~t.done)

\* thread = f(...) for a @threaded f
Submit(kind, arg) ==
    /\ tasks' = Append(tasks, NewTask(kind, arg))
    /\ thread' = Len(tasks) + 1

\* the coordinating thread holds no handle it will use again
Release ==
    /\ tasks' = LiveTasks
    /\ thread' = 0

\* "not thread.done() and not thread.cancelled()"
Polling == ~tasks[thread].done /\ ~tasks[thread].cancelled

\* the function ends: future.set_result(value), or future.set_exception(exc)
\* when it raised. The locals of a function that returned stay with the handle,
\* as the record of what its result was computed from; those of a function left
\* by an exception are gone.
Finished(ts, t, exc, value) ==
    [ts EXCEPT ![t].exc = exc, ![t].slot = value, ![t].writes = @ + 1, ![t].done = TRUE,
               ![t].wpc = "done", ![t].call = "none",
               ![t].snapshots = IF exc = "none" THEN @ ELSE NoneList,
               ![t].current_state = IF exc = "none" THEN @ ELSE None]

SetResult(t, value) == tasks' = Finished(tasks, t, "none", value)

SetException(t, exc) == tasks' = Finished(tasks, t, exc, Unset)

\* the first adapter action a @threaded function calls
FirstCall(kind) ==
    CASE kind = "_get_gui_data" -> "list"
      [] kind = "_ls_window" -> "ls"
      [] kind = "_restore_window" -> "restore"
      [] kind = "_gui_backup" -> "backup"
      [] OTHER -> "none"

(***************************************************************************)
(* The workers: the bodies of the @threaded functions.                     *)
(***************************************************************************)
\* the thread starts and the function runs up to its first adapter call
threaded_start(t) ==
    /\ tasks[t].wpc = "start"
    /\ tasks' = [tasks EXCEPT ![t].runs = @ + 1,
                              ![t].call = FirstCall(tasks[t].kind),
                              ![t].wpc = IF FirstCall(tasks[t].kind) = "none" THEN "body" ELSE "call"]
    /\ gg_calls' = IF tasks[t].kind = "_get_gui_data" THEN Append(gg_calls, "list") ELSE gg_calls
    /\ UNCHANGED << pc, config, ret, gui_data, window, popup, busy, thread, result, ui_call,
                    gg_result, gg_submits, ls_local, stdout, taken, tree_vars, menu_vars >>

\* the adapter call a worker is in raises instead of returning
runner_raises(t) ==
    /\ tasks[t].wpc = "call"
    /\ SetException(t, "AdapterError")
    /\ UNCHANGED << pc, config, ret, gui_data, window, popup, busy, thread, result, ui_call,
                    gg_result, gg_calls, gg_submits, ls_local, stdout, taken, tree_vars, menu_vars >>

\* _get_gui_data, lines 56-64: the list action returns, has_recent_snapshots
\* is called
_get_gui_data_list(t) ==
    /\ tasks[t].kind = "_get_gui_data"
    /\ tasks[t].wpc = "call"
    /\ tasks[t].call = "list"
    /\ \E snapshots \in ListResults :
          tasks' = [tasks EXCEPT ![t].snapshots = snapshots,
                                 ![t].call = "has_recent_snapshots"]
    /\ gg_calls' = Append(gg_calls, "has_recent_snapshots")
    /\ UNCHANGED << pc, config, ret, gui_data, window, popup, busy, thread, result, ui_call,
                    gg_result, gg_submits, ls_local, stdout, taken, tree_vars, menu_vars >>

\* _get_gui_data, lines 64-78: has_recent_snapshots returns, the list is
\* built and the pair returned, or a KeyError leaves the function
_get_gui_data_return(t) ==
    /\ tasks[t].kind = "_get_gui_data"
    /\ tasks[t].wpc = "call"
    /\ tasks[t].call = "has_recent_snapshots"
    /\ \E current_state \in StateResults :
          LET built == make_snapshot_list(tasks[t].snapshots)
              seen == [tasks EXCEPT ![t].current_state = current_state]
          IN  IF built.raised
              THEN tasks' = Finished(seen, t, "KeyError", Unset)
              ELSE tasks' = Finished(seen, t, "none",
                                     _get_gui_data_value(current_state, built.list))
    /\ UNCHANGED << pc, config, ret, gui_data, window, popup, busy, thread, result, ui_call,
                    gg_result, gg_calls, gg_submits, ls_local, stdout, taken, tree_vars, menu_vars >>

\* _ls_window, lines 160-185
_ls_window_return(t) ==
    /\ tasks[t].kind = "_ls_window"
    /\ tasks[t].wpc = "call"
    /\ \E res \in LsResults :
          IF res.is_none
          THEN SetResult(t, [has_content |-> FALSE, backup_content |-> make_backup_content(<<>>),
                             ls_result |-> <<>>])
          ELSE SetResult(t, [has_content |-> TRUE,
                             backup_content |-> make_backup_content(Head(res.items)),
                             ls_result |-> Tail(res.items)])
    /\ UNCHANGED << pc, config, ret, gui_data, window, popup, busy, thread, result, ui_call,
                    gg_result, gg_calls, gg_submits, ls_local, stdout, taken, tree_vars, menu_vars >>

\* _make_treedata_from_json run as a task, lines 115-151
make_treedata_task(t) ==
    /\ tasks[t].kind = "_make_treedata_from_json"
    /\ tasks[t].wpc = "body"
    /\ LET td == _make_treedata_from_json(tasks[t].arg, os_name)
       IN  IF td.raised
           THEN SetException(t, "KeyError")
           ELSE SetResult(t, td.tree_dict)
    /\ UNCHANGED << pc, config, ret, gui_data, window, popup, busy, thread, result, ui_call,
                    gg_result, gg_calls, gg_submits, ls_local, stdout, taken, tree_vars, menu_vars >>

\* _restore_window, line 246
_restore_window_return(t) ==
    /\ tasks[t].kind = "_restore_window"
    /\ tasks[t].wpc = "call"
    /\ \E res \in BoolResults : SetResult(t, res)
    /\ UNCHANGED << pc, config, ret, gui_data, window, popup, busy, thread, result, ui_call,
                    gg_result, gg_calls, gg_submits, ls_local, stdout, taken, tree_vars, menu_vars >>

\* _gui_backup, line 291: the runner puts one more progress line on stdout
_gui_backup_line(t) ==
    /\ tasks[t].kind = "_gui_backup"
    /\ tasks[t].wpc = "call"
    /\ tasks[t].put < MaxLines
    /\ stdout' = Append(stdout, tasks[t].put + 1)
    /\ tasks' = [tasks EXCEPT ![t].put = @ + 1]
    /\ UNCHANGED << pc, config, ret, gui_data, window, popup, busy, thread, result, ui_call,
                    gg_result, gg_calls, gg_submits, ls_local, taken, tree_vars, menu_vars >>

\* _gui_backup, line 291: the runner returns
_gui_backup_return(t) ==
    /\ tasks[t].kind = "_gui_backup"
    /\ tasks[t].wpc = "call"
    /\ \E res \in BoolResults : SetResult(t, res)
    /\ UNCHANGED << pc, config, ret, gui_data, window, popup, busy, thread, result, ui_call,
                    gg_result, gg_calls, gg_submits, ls_local, stdout, taken, tree_vars, menu_vars >>

(***************************************************************************)
(* The coordinating thread: get_gui_data, lines 81-98.                     *)
(***************************************************************************)
NoneData == [current_state |-> None, snapshot_list |-> NoneList]

\* the call get_gui_data(config) from the call site "site"
CallGetGuiData(site) ==
    /\ pc' = "gg_config"
    /\ ret' = site
    /\ gg_result' = None
    /\ gg_calls' = <<>>
    /\ gg_submits' = 0

\* an exception nobody catches leaves main_gui
Raise == pc' = "raised"

\* lines 82-89: the configuration test, then the check-binary call is made
\* (the handle and the queue of a backup before it are not used again)
get_gui_data_config ==
    /\ pc = "gg_config"
    /\ events' = Append(events, "get_gui_data")
    /\ IF not_configured(config)
       THEN /\ popup' = "repository_not_configured"
            /\ gui_data' = NoneData
            /\ pc' = "update"
            /\ UNCHANGED << ui_call, gg_calls >>
       ELSE /\ ui_call' = "check-binary"
            /\ gg_calls' = Append(gg_calls, "check-binary")
            /\ pc' = "gg_check"
            /\ UNCHANGED << popup, gui_data >>
    /\ Release
    /\ stdout' = <<>>
    /\ taken' = <<>>
    /\ UNCHANGED << config, ret, window, busy, result, gg_result, gg_submits,
                    ls_local, tree_vars,
                    backend_type, destination_string >>

\* lines 90-94 without the early return of line 93
get_gui_data_check_binary_no_return ==
    /\ pc = "gg_check"
    /\ ui_call' = "none"
    /\ \E res \in BoolResults :
          /\ gg_result' = res
          /\ popup' = IF ~Truthy(res) THEN "no_binary" ELSE popup
          /\ Submit("_get_gui_data", <<>>)
          /\ gg_submits' = gg_submits + 1
          /\ pc' = "gg_poll"
    /\ UNCHANGED << config, ret, gui_data, window, busy, result, gg_calls, ls_local, stdout,
                    taken, tree_vars, menu_vars >>

\* lines 90-94: check-binary returns to the coordinating thread
get_gui_data_check_binary ==
    /\ pc = "gg_check"
    /\ ui_call' = "none"
    /\ \E res \in BoolResults :
          /\ gg_result' = res
          /\ IF ~Truthy(res)
             THEN /\ popup' = "no_binary"
                  /\ gui_data' = NoneData
                  /\ pc' = "update"
                  /\ Release
                  /\ UNCHANGED gg_submits
             ELSE /\ Submit("_get_gui_data", <<>>)
                  /\ gg_submits' = gg_submits + 1
                  /\ pc' = "gg_poll"
                  /\ UNCHANGED << popup, gui_data >>
    /\ UNCHANGED << config, ret, window, busy, result, gg_calls, ls_local, stdout, taken,
                    tree_vars, menu_vars >>

\* line 90, when the runner raises on the coordinating thread
get_gui_data_check_binary_raises ==
    /\ pc = "gg_check"
    /\ ui_call' = "none"
    /\ Raise
    /\ Release
    /\ UNCHANGED << config, ret, gui_data, window, popup, busy, result, gg_result,
                    gg_calls, gg_submits, ls_local, stdout, taken, tree_vars, menu_vars >>

\* lines 95-98 without the loop: done() is looked at once and the result
\* asked for whatever it said
get_gui_data_poll_once ==
    /\ pc = "gg_poll"
    /\ busy' = "none"
    /\ pc' = "gg_result"
    /\ UNCHANGED << config, ret, gui_data, window, popup, thread, result, ui_call, gg_result,
                    gg_calls, gg_submits, ls_local, tasks, stdout, taken, tree_vars, menu_vars >>

\* lines 95-97: one turn of the polling loop, or its end
get_gui_data_poll ==
    /\ pc = "gg_poll"
    /\ IF Polling
       THEN busy' = "loading_data_from_repo" /\ pc' = pc
       ELSE busy' = "none" /\ pc' = "gg_result"
    /\ UNCHANGED << config, ret, gui_data, window, popup, thread, result, ui_call, gg_result,
                    gg_calls, gg_submits, ls_local, tasks, stdout, taken, tree_vars, menu_vars >>

\* line 98 with a result() that runs the operation again to give its value
get_gui_data_result_reruns ==
    /\ pc = "gg_result"
    /\ tasks' = [tasks EXCEPT ![thread].runs = @ + 1]
    /\ IF tasks[thread].exc # "none"
       THEN Raise /\ UNCHANGED gui_data
       ELSE gui_data' = tasks[thread].slot /\ pc' = "update"
    /\ UNCHANGED << config, ret, window, popup, busy, thread, result, ui_call, gg_result,
                    gg_calls, gg_submits, ls_local, stdout, taken, tree_vars, menu_vars >>

\* line 98: return thread.result()
get_gui_data_result ==
    /\ pc = "gg_result"
    /\ IF tasks[thread].exc # "none"
       THEN Raise /\ UNCHANGED gui_data
       ELSE gui_data' = tasks[thread].slot /\ pc' = "update"
    /\ UNCHANGED << config, ret, window, popup, busy, thread, result, ui_call, gg_result,
                    gg_calls, gg_submits, ls_local, tasks, stdout, taken, tree_vars, menu_vars >>

\* lines 362, 389, 425: _gui_update_state(window, current_state, snapshot_list)
\* at the call site get_gui_data returned to
gui_update_state ==
    /\ pc = "update"
    /\ events' = Append(events, "update")
    /\ window' = _gui_update_state(window, gui_data.current_state, gui_data.snapshot_list)
    /\ pc' = IF ret = "backup" THEN "bk_popup" ELSE "read"
    /\ Release
    /\ ret' = "none"
    /\ gui_data' = NoneData
    /\ gg_result' = None
    /\ gg_calls' = <<>>
    /\ gg_submits' = 0
    /\ UNCHANGED << config, popup, busy, result, ui_call, ls_local, stdout, taken, tree_vars,
                    backend_type, destination_string >>

(***************************************************************************)
(* The coordinating thread: main_gui, lines 294-425.                       *)
(***************************************************************************)
NoLs == [snapshot_id |-> 0, backup_content |-> make_backup_content(<<>>),
         treedata |-> NewTreeData.tree_dict]

\* line 299: the backends shown as an external server
RemoteBackends ==
    { <<"R", "E", "S", "T">>, <<"S", "3">>, <<"B", "2">>, <<"S", "F", "T", "P">>,
      <<"S", "W", "I", "F", "T">>, <<"A", "Z", "U", "R", "E">>, <<"G", "Z">>,
      <<"R", "C", "L", "O", "N", "E">> }

\* lines 296-302: backend_type stays None when the repository key is missing
\* (the KeyError of line 298 is passed over), else it is what comes before
\* the first ":" of the repository, in capitals
make_backend_type(cfg) ==
    IF "repo" \notin DOMAIN cfg \/ "repository" \notin DOMAIN cfg.repo
    THEN NoneList
    ELSE PyList(upper(split_first(cfg.repo.repository, ":")))

\* lines 295-300: the text after "backup list to" in the main window
backup_destination(bt) ==
    IF ~bt.is_none /\ bt.items \in RemoteBackends
    THEN << "external_server", bt.items >>
    ELSE << "local_folder" >>

\* "if backend_type", line 412
backend_type_truthy(bt) == ~bt.is_none /\ bt.items # <<>>

\* a local that no assignment has bound yet, and one bound to a value. The
\* value destination_string got at line 414 or 416 is never read in a later
\* turn of the loop (backend_type does not change, so line 417 is reached with
\* the value just assigned or with none ever assigned): the other events drop it
Unbound == [bound |-> FALSE, value |-> <<>>]
Bound(v) == [bound |-> TRUE, value |-> v]

\* lines 295-361: backend_type is computed from the config main_gui was
\* given, the window is made and the data loaded a first time
main_gui_start ==
    /\ pc = "start"
    /\ backend_type' = make_backend_type(config)
    /\ CallGetGuiData("start")
    /\ Release
    /\ UNCHANGED << config, gui_data, window, popup, busy, result, ui_call,
                    ls_local, stdout, taken, tree_vars, destination_string, events >>

\* lines 364-367: the window is closed
main_gui_exit ==
    /\ pc = "read"
    /\ events' = <<>>
    /\ destination_string' = Unbound
    /\ pc' = "closed"
    /\ popup' = "none"
    /\ Release
    /\ UNCHANGED << config, ret, gui_data, window, busy, result, ui_call, gg_result,
                    gg_calls, gg_submits, ls_local, stdout, taken, tree_vars, backend_type >>

\* lines 368-376: launch-backup; the queue is made and the backup submitted
main_gui_launch_backup ==
    /\ pc = "read"
    /\ events' = << "launch-backup" >>
    /\ destination_string' = Unbound
    /\ popup' = "none"
    /\ stdout' = <<>>
    /\ taken' = <<>>
    /\ Submit("_gui_backup", <<>>)
    /\ pc' = "bk_poll"
    /\ UNCHANGED << config, ret, gui_data, window, busy, result, ui_call, gg_result,
                    gg_calls, gg_submits, ls_local, tree_vars, backend_type >>

\* lines 377-386: one turn of the polling loop (a line is taken from stdout,
\* or stdout.get times out on an empty queue), or its end
main_gui_backup_poll ==
    /\ pc = "bk_poll"
    /\ events' = IF Polling THEN events ELSE Append(events, "done")
    /\ IF Polling
       THEN /\ IF stdout # <<>>
               THEN taken' = Append(taken, Head(stdout)) /\ stdout' = Tail(stdout)
               ELSE UNCHANGED << taken, stdout >>
            /\ busy' = "backup_in_progress"
            /\ pc' = pc
       ELSE /\ busy' = "none"
            /\ pc' = "bk_result"
            /\ UNCHANGED << taken, stdout >>
    /\ UNCHANGED << config, ret, gui_data, window, popup, thread, result, ui_call, gg_result,
                    gg_calls, gg_submits, ls_local, tasks, tree_vars,
                    backend_type, destination_string >>

\* lines 387-388: result = thread.result(), then get_gui_data(config)
main_gui_backup_result ==
    /\ pc = "bk_result"
    /\ events' = IF tasks[thread].exc # "none" THEN events ELSE Append(events, "result")
    /\ IF tasks[thread].exc # "none"
       THEN Raise /\ UNCHANGED << result, ret, gg_result, gg_calls, gg_submits >>
       ELSE result' = tasks[thread].slot /\ CallGetGuiData("backup")
    /\ UNCHANGED << config, gui_data, window, popup, busy, thread, ui_call, ls_local, tasks,
                    stdout, taken, tree_vars,
                    backend_type, destination_string >>

\* lines 390-396 without the "continue" of line 397: the loop goes on to the
\* get_gui_data of line 424
main_gui_backup_popup_no_continue ==
    /\ pc = "bk_popup"
    /\ events' = Append(events, "popup")
    /\ popup' = IF ~Truthy(result) THEN "backup_failed" ELSE "backup_done"
    /\ CallGetGuiData("loop")
    /\ Release
    /\ result' = None
    /\ UNCHANGED << config, gui_data, window, busy, ui_call, ls_local, stdout, taken,
                    tree_vars,
                    backend_type, destination_string >>

\* lines 390-397: the outcome popup, then "continue"
main_gui_backup_popup ==
    /\ pc = "bk_popup"
    /\ events' = Append(events, "popup")
    /\ popup' = IF ~Truthy(result) THEN "backup_failed" ELSE "backup_done"
    /\ pc' = "read"
    /\ Release
    /\ result' = None
    /\ UNCHANGED << config, ret, gui_data, window, busy, ui_call, gg_result,
                    gg_calls, gg_submits, ls_local, stdout, taken, tree_vars,
                    backend_type, destination_string >>

\* lines 403-407 and 188-190: see-content; without a selected snapshot
\* a popup and "continue", with one ls_window submits the ls task
main_gui_see_content ==
    /\ pc = "read"
    /\ events' = <<>>
    /\ destination_string' = Unbound
    /\ \E sel \in 0..Len(window.snapshot_list) :
          IF sel = 0
          THEN /\ popup' = "select_backup"
               /\ pc' = "read"
               /\ Release
               /\ UNCHANGED ls_local
          ELSE /\ popup' = "none"
               /\ ls_local' = [NoLs EXCEPT !.snapshot_id = window.snapshot_list[sel].id]
               /\ Submit("_ls_window", window.snapshot_list[sel].id)
               /\ pc' = "ls_poll"
    /\ UNCHANGED << config, ret, gui_data, window, busy, result, ui_call, gg_result,
                    gg_calls, gg_submits, stdout, taken, tree_vars, backend_type >>

\* lines 408-409 and 424: configure; config_gui gives the new config
main_gui_configure ==
    /\ pc = "read"
    /\ events' = <<>>
    /\ destination_string' = Unbound
    /\ popup' = "none"
    /\ config' \in Configs
    /\ CallGetGuiData("loop")
    /\ Release
    /\ UNCHANGED << gui_data, window, busy, result, ui_call, ls_local, stdout, taken,
                    tree_vars, backend_type >>

\* lines 410-419 and 424: the destination entry of the right-click menu.
\* destination_string is assigned when backend_type is truthy; a KeyError of
\* config['repo']['repository'] is caught and the unknown-repository message
\* shown; the UnboundLocalError of line 417, when destination_string was never
\* assigned, is not in the except clause and leaves main_gui
main_gui_destination ==
    /\ pc = "read"
    /\ events' = << "destination" >>
    /\ LET assigns == backend_type_truthy(backend_type)
           key_error == assigns /\ "repository" \notin DOMAIN config.repo
           bound == IF assigns /\ ~key_error
                    THEN Bound(IF backend_type.items \in { <<"R", "E", "S", "T">>,
                                                           <<"S", "F", "T", "P">> }
                               THEN split_last(config.repo.repository, "@")
                               ELSE config.repo.repository)
                    ELSE destination_string
       IN  /\ destination_string' = bound
           /\ IF key_error
              THEN popup' = "unknown_repo" /\ CallGetGuiData("loop")
              ELSE IF ~bound.bound
              THEN /\ Raise
                   /\ popup' = "none"
                   /\ UNCHANGED << ret, gg_result, gg_calls, gg_submits >>
              ELSE popup' = "destination" /\ CallGetGuiData("loop")
    /\ Release
    /\ UNCHANGED << config, gui_data, window, busy, result, ui_call, ls_local,
                    stdout, taken, tree_vars, backend_type >>

\* lines 364 and 424: the read times out (every minute), or the about
\* window was shown and closed (lines 420-421). The "restore-to" test of
\* line 398 matches no key or menu entry of the layout (lines 304-337).
main_gui_timeout ==
    /\ pc = "read"
    /\ events' = <<>>
    /\ destination_string' = Unbound
    /\ popup' = "none"
    /\ CallGetGuiData("loop")
    /\ Release
    /\ UNCHANGED << config, gui_data, window, busy, result, ui_call, ls_local,
                    stdout, taken, tree_vars, backend_type >>

(***************************************************************************)
(* The coordinating thread: ls_window, lines 188-241.                      *)
(***************************************************************************)
\* lines 192-198 with a loop that is left while the task still runs,
\* ls_window returning as it does for a listing without content
ls_window_poll_gives_up ==
    /\ pc = "ls_poll"
    /\ busy' = "none"
    /\ IF Polling
       THEN /\ popup' = "cannot_get_content"
            /\ CallGetGuiData("loop")
            /\ ls_local' = NoLs
       ELSE /\ pc' = "ls_result"
            /\ UNCHANGED << popup, ret, gg_result, gg_calls, gg_submits, ls_local >>
    /\ UNCHANGED << config, gui_data, window, thread, result, ui_call, tasks, stdout, taken,
                    tree_vars, menu_vars >>

\* lines 192-194
ls_window_poll ==
    /\ pc = "ls_poll"
    /\ IF Polling
       THEN busy' = "loading_data_from_repo" /\ pc' = pc
       ELSE busy' = "none" /\ pc' = "ls_result"
    /\ UNCHANGED << config, ret, gui_data, window, popup, thread, result, ui_call, gg_result,
                    gg_calls, gg_submits, ls_local, tasks, stdout, taken, tree_vars, menu_vars >>

\* lines 195-205: the ls result; without content an error popup and the
\* return to main_gui (which goes on to line 424), else the tree task
ls_window_result ==
    /\ pc = "ls_result"
    /\ IF tasks[thread].exc # "none"
       THEN /\ Raise
            /\ UNCHANGED << popup, busy, ls_local, tasks, thread, ret, gg_result, gg_calls,
                            gg_submits >>
       ELSE IF ~tasks[thread].slot.has_content
       THEN /\ popup' = "cannot_get_content"
            /\ CallGetGuiData("loop")
            /\ ls_local' = NoLs
            /\ UNCHANGED << busy, tasks, thread >>
       ELSE /\ ls_local' = [ls_local EXCEPT !.backup_content = tasks[thread].slot.backup_content]
            /\ busy' = "creating_tree"
            /\ Submit("_make_treedata_from_json", tasks[thread].slot.ls_result)
            /\ pc' = "tree_poll"
            /\ UNCHANGED << popup, ret, gg_result, gg_calls, gg_submits >>
    /\ UNCHANGED << config, gui_data, window, result, ui_call, stdout, taken, tree_vars, menu_vars >>

\* lines 207-209
ls_window_tree_poll ==
    /\ pc = "tree_poll"
    /\ IF Polling
       THEN busy' = "creating_tree" /\ pc' = pc
       ELSE busy' = "none" /\ pc' = "tree_result"
    /\ UNCHANGED << config, ret, gui_data, window, popup, thread, result, ui_call, gg_result,
                    gg_calls, gg_submits, ls_local, tasks, stdout, taken, tree_vars, menu_vars >>

\* lines 210-231: treedata = thread.result(), the content window opens
ls_window_tree_result ==
    /\ pc = "tree_result"
    /\ IF tasks[thread].exc # "none"
       THEN Raise /\ UNCHANGED ls_local
       ELSE /\ ls_local' = [ls_local EXCEPT !.treedata = tasks[thread].slot]
            /\ pc' = "ls_read"
    /\ UNCHANGED << config, ret, gui_data, window, popup, busy, thread, result, ui_call,
                    gg_result, gg_calls, gg_submits, tasks, stdout, taken, tree_vars, menu_vars >>

\* lines 232-235, 241 and 424: the content window is left
ls_window_quit ==
    /\ pc = "ls_read"
    /\ popup' = "none"
    /\ CallGetGuiData("loop")
    /\ Release
    /\ ls_local' = NoLs
    /\ UNCHANGED << config, gui_data, window, busy, result, ui_call, stdout, taken, tree_vars, menu_vars >>

\* lines 236-240: restore_to; without a selected node a popup, with one
\* the restore window
ls_window_restore_to ==
    /\ pc = "ls_read"
    /\ \E selected \in BOOLEAN :
          /\ selected => DOMAIN ls_local.treedata # {<<>>}
          /\ IF selected
             THEN popup' = "none" /\ pc' = "rw_read"
             ELSE popup' = "select_folder" /\ pc' = "ls_read"
    /\ Release
    /\ UNCHANGED << config, ret, gui_data, window, busy, result, ui_call, gg_result,
                    gg_calls, gg_submits, ls_local, stdout, taken, tree_vars, menu_vars >>

(***************************************************************************)
(* The coordinating thread: restore_window, lines 249-286.                 *)
(***************************************************************************)
\* lines 264-266 and 286
restore_window_cancel ==
    /\ pc = "rw_read"
    /\ popup' = "none"
    /\ pc' = "ls_read"
    /\ Release
    /\ UNCHANGED << config, ret, gui_data, window, busy, result, ui_call, gg_result,
                    gg_calls, gg_submits, ls_local, stdout, taken, tree_vars, menu_vars >>

\* lines 267-275 with _restore_window called as a plain function: the
\* runner is entered on the coordinating thread
restore_window_restore_unthreaded ==
    /\ pc = "rw_read"
    /\ popup' = "none"
    /\ ui_call' = "restore"
    /\ pc' = "rw_call"
    /\ UNCHANGED << config, ret, gui_data, window, busy, thread, result, gg_result,
                    gg_calls, gg_submits, ls_local, tasks, stdout, taken, tree_vars, menu_vars >>

\* lines 267-275: the restore task is submitted
restore_window_restore ==
    /\ pc = "rw_read"
    /\ popup' = "none"
    /\ Submit("_restore_window", ls_local.snapshot_id)
    /\ pc' = "rw_poll"
    /\ UNCHANGED << config, ret, gui_data, window, busy, result, ui_call, gg_result,
                    gg_calls, gg_submits, ls_local, stdout, taken, tree_vars, menu_vars >>

\* lines 276-278
restore_window_poll ==
    /\ pc = "rw_poll"
    /\ IF Polling
       THEN busy' = "restore_in_progress" /\ pc' = pc
       ELSE busy' = "none" /\ pc' = "rw_result"
    /\ UNCHANGED << config, ret, gui_data, window, popup, thread, result, ui_call, gg_result,
                    gg_calls, gg_submits, ls_local, tasks, stdout, taken, tree_vars, menu_vars >>

\* lines 280-286 with the failure of the task caught and shown as a failed restore
restore_window_result_swallows ==
    /\ pc = "rw_result"
    /\ popup' = IF tasks[thread].exc = "none" /\ Truthy(tasks[thread].slot)
                THEN "restore_done" ELSE "restore_failed"
    /\ pc' = "ls_read"
    /\ UNCHANGED << config, ret, gui_data, window, busy, thread, result, ui_call, gg_result,
                    gg_calls, gg_submits, ls_local, tasks, stdout, taken, tree_vars, menu_vars >>

\* lines 280-286: result = thread.result(), the outcome popup, the window closes
restore_window_result ==
    /\ pc = "rw_result"
    /\ IF tasks[thread].exc # "none"
       THEN Raise /\ UNCHANGED popup
       ELSE /\ popup' = IF Truthy(tasks[thread].slot) THEN "restore_done" ELSE "restore_failed"
            /\ pc' = "ls_read"
    /\ UNCHANGED << config, ret, gui_data, window, busy, thread, result, ui_call, gg_result,
                    gg_calls, gg_submits, ls_local, tasks, stdout, taken, tree_vars, menu_vars >>

(***************************************************************************)
(* The specifications.                                                     *)
(***************************************************************************)
TreeIdle ==
    /\ os_name = "posix"
    /\ tl_input = <<>>
    /\ tl_i = 1
    /\ treedata = NewTreeData
    /\ tl_pc = "idle"

GuiInit ==
    /\ pc = "start"
    /\ ret = "none"
    /\ gui_data = NoneData
    /\ window = [state_button |-> "unknown", snapshot_list |-> <<>>]
    /\ popup = "none"
    /\ busy = "none"
    /\ thread = 0
    /\ result = None
    /\ ui_call = "none"
    /\ gg_result = None
    /\ gg_calls = <<>>
    /\ gg_submits = 0
    /\ ls_local = NoLs
    /\ backend_type = NoneList
    /\ destination_string = Unbound
    /\ events = <<>>
    /\ tasks = <<>>
    /\ stdout = <<>>
    /\ taken = <<>>

Init ==
    /\ config \in Configs
    /\ GuiInit
    /\ TreeIdle

Next ==
    \/ main_gui_start
    \/ get_gui_data_config
    \/ get_gui_data_check_binary
    \/ get_gui_data_check_binary_raises
    \/ get_gui_data_poll
    \/ get_gui_data_result
    \/ gui_update_state
    \/ main_gui_exit
    \/ main_gui_launch_backup
    \/ main_gui_backup_poll
    \/ main_gui_backup_result
    \/ main_gui_backup_popup
    \/ main_gui_see_content
    \/ main_gui_configure
    \/ main_gui_destination
    \/ main_gui_timeout
    \/ ls_window_poll
    \/ ls_window_result
    \/ ls_window_tree_poll
    \/ ls_window_tree_result
    \/ ls_window_quit
    \/ ls_window_restore_to
    \/ restore_window_cancel
    \/ restore_window_restore
    \/ restore_window_poll
    \/ restore_window_result
    \/ \E t \in 1..Len(tasks) : threaded_start(t)
    \/ \E t \in 1..Len(tasks) : runner_raises(t)
    \/ \E t \in 1..Len(tasks) : _get_gui_data_list(t)
    \/ \E t \in 1..Len(tasks) : _get_gui_data_return(t)
    \/ \E t \in 1..Len(tasks) : _ls_window_return(t)
    \/ \E t \in 1..Len(tasks) : make_treedata_task(t)
    \/ \E t \in 1..Len(tasks) : _restore_window_return(t)
    \/ \E t \in 1..Len(tasks) : _gui_backup_line(t)
    \/ \E t \in 1..Len(tasks) : _gui_backup_return(t)

Spec == Init /\ [][Next]_vars

\* _make_treedata_from_json alone, on every sequence of tree-node records
TreeSpecInit ==
    /\ config = [repo |-> [k \in {} |-> <<>>]]
    /\ GuiInit
    /\ TreeInit

TreeNext ==
    \/ tree_loop
    \/ tree_raise
    \/ tree_return

SpecTree == TreeSpecInit /\ [][TreeNext]_vars

(***************************************************************************)
(* The claims.                                                             *)
(***************************************************************************)
\* the positions at which the coordinating thread calls thread.result()
ResultPcs == {"gg_result", "bk_result", "ls_result", "tree_result", "rw_result"}

\* C1: when the coordinating thread has left the polling loop of a backup
\* and taken its result, it has got every line the worker put on stdout,
\* each exactly once and none is left in the queue.
C1_AllLinesTaken ==
    (pc = "gg_config" /\ ret = "backup")
        => /\ stdout = <<>>
           /\ taken = [i \in 1..tasks[thread].put |-> i]

\* the state button the claim gives each of the three values
C2_Label(v) ==
    CASE v = PyTrue -> "up_to_date"
      [] v = PyFalse -> "too_old"
      [] v = None -> "not_connected"

\* C2: the value the adapter gave for has_recent_snapshots is the one
\* get_gui_data returns, and _gui_update_state sets the state button to
\* "up to date" for True, "too old" for False and "not connected" for None,
\* three different states.
C2_TriStatePreserved ==
    [][ (pc = "update" /\ gg_submits = 1)
            => /\ gui_data.current_state = tasks[thread].current_state
               /\ window'.state_button = C2_Label(tasks[thread].current_state) ]_vars

C2_Witness ==
    /\ pc = "update"
    /\ gg_submits = 1
    /\ tasks[thread].current_state = None
    /\ window.state_button = "up_to_date"

\* C3: the snapshot list get_gui_data returns has one entry for each
\* snapshot the list action gave, the i-th entry built from the snapshot
\* at place n+1-i; a None or empty result gives the empty list.
C3_NewestFirst ==
    (pc = "update" /\ gg_submits = 1)
        => LET s == tasks[thread].snapshots.items
               l == gui_data.snapshot_list
               n == Len(s)
           IN  /\ ~l.is_none
               /\ Len(l.items) = n
               /\ \A i \in 1..n :
                     /\ l.items[i].id = s[n + 1 - i]["short_id"]
                     /\ l.items[i].date = s[n + 1 - i]["time"].seconds
                     /\ l.items[i].username = s[n + 1 - i]["username"]
                     /\ l.items[i].hostname = s[n + 1 - i]["hostname"]

C3_Witness ==
    /\ pc = "update"
    /\ gg_submits = 1
    /\ Len(tasks[thread].snapshots.items) = 2
    /\ tasks[thread].snapshots.items[1]["short_id"] = 1
    /\ tasks[thread].snapshots.items[2]["short_id"] = 2
    /\ gui_data.snapshot_list.items[1].id = 2

\* the tree keys of the records given, and of the directories their paths imply
RECURSIVE Ancestors(_)
Ancestors(key) == IF key = <<>> THEN {} ELSE {dirname(key)} \cup Ancestors(dirname(key))

C4_Keys ==
    LET keys == {entry_key(tl_input[i], os_name) : i \in 1..Len(tl_input)}
    IN  keys \cup UNION {Ancestors(k) : k \in keys}

\* C4: _make_treedata_from_json never raises, in whatever order the records
\* come and whether or not the record of a parent directory is given, and
\* the tree it returns holds a node for every path given and for every
\* parent directory a path implies.
C4_NeverRaises ==
    /\ tl_pc # "raised"
    /\ tl_pc = "returned" => C4_Keys \subseteq DOMAIN treedata.tree_dict

\* C5: when check-binary returned a falsy result, get_gui_data returns
\* (None, None) having invoked no other adapter action and submitted no task.
C5_NoTaskWithoutBinary ==
    (gg_result = PyFalse)
        => /\ pc = "update"
           /\ gui_data = NoneData
           /\ gg_calls = <<"check-binary">>
           /\ gg_submits = 0
           /\ tasks = <<>>

C5_Witness ==
    /\ gg_result = PyFalse
    /\ pc = "update"
    /\ popup = "no_binary"

\* the repository key is missing or empty
C6_RepositoryNotConfigured ==
    \/ "repo" \notin DOMAIN config
    \/ "repository" \notin DOMAIN config.repo
    \/ config.repo.repository = <<>>

\* C6: with a repository that is not configured, whatever the password,
\* get_gui_data shows the not-configured message and returns (None, None)
\* without invoking the adapter and without submitting a task.
C6_NotConfiguredNoAdapter ==
    (C6_RepositoryNotConfigured /\ pc \in {"gg_check", "gg_poll", "gg_result", "update"})
        => /\ pc = "update"
           /\ popup = "repository_not_configured"
           /\ gui_data = NoneData
           /\ gg_calls = <<>>
           /\ gg_submits = 0

\* C7: a snapshot record without one of time, username, hostname, short_id
\* never makes the task fail, for the list action (_get_gui_data) and for
\* the header of the ls action (_ls_window): no such task ends with the
\* KeyError of the missing field.
C7_MissingFieldsTolerated ==
    \A t \in 1..Len(tasks) :
        tasks[t].kind \in {"_get_gui_data", "_ls_window"} => tasks[t].exc # "KeyError"

\* C8: when the operation of a task raised, the thread.result() that follows
\* the polling loop raises on the coordinating thread: main_gui is left by
\* the exception, no popup is shown for the task and nothing is updated.
C8_FailureReraised ==
    [][ (pc \in ResultPcs /\ tasks[thread].exc # "none" /\ pc' # pc)
            => /\ pc' = "raised"
               /\ UNCHANGED << popup, window, gui_data, result, ls_local >> ]_vars

C8_Witness ==
    /\ pc = "raised"
    /\ thread \in 1..Len(tasks)
    /\ tasks[thread].kind = "_restore_window"
    /\ tasks[thread].exc # "none"
    /\ popup = "none"

C10_NoAdapterCallOnUiThread == ui_call = "none"

\* C10 as amended: list, has_recent_snapshots, ls, restore and backup are
\* executed by workers only; check-binary is the one adapter action the
\* coordinating thread executes itself (in get_gui_data, before any task is
\* submitted), and no worker executes it.
C10_OnlyCheckBinaryOnUiThread ==
    /\ ui_call \in {"none", "check-binary"}
    /\ ui_call = "check-binary" <=> pc = "gg_check"
    /\ \A t \in 1..Len(tasks) :
          /\ tasks[t].call \in {"none", "list", "has_recent_snapshots", "ls", "restore", "backup"}
          /\ tasks[t].call # "none" => pc \in {"gg_poll", "bk_poll", "ls_poll", "rw_poll"}

C10_Witness ==
    /\ pc = "rw_poll"
    /\ ui_call = "none"
    /\ busy = "restore_in_progress"
    /\ tasks[thread].call = "restore"

\* the positions at which the coordinating thread is in a polling loop
PollPcs == {"gg_poll", "bk_poll", "ls_poll", "tree_poll", "rw_poll"}

\* C11: wherever the coordinating thread calls thread.result(), the handle is
\* done or cancelled, so the call does not wait for the worker; and as long
\* as a worker has not finished, the coordinating thread is in the polling
\* loop of that worker's handle.
C11_ResultNeverWaits ==
    /\ pc \in ResultPcs
          => /\ thread \in 1..Len(tasks)
             /\ (tasks[thread].done \/ tasks[thread].cancelled)
    /\ \A t \in 1..Len(tasks) :
          ~tasks[t].done => (pc \in PollPcs /\ t = thread)

C11_Witness ==
    /\ pc = "tree_result"
    /\ tasks[thread].kind = "_make_treedata_from_json"
    /\ tasks[thread].done
    /\ busy = "none"

\* C12: at most one submitted task is not done at any time, and a task is
\* submitted only when every task submitted before it is done and the
\* coordinating thread has left the polling loop that waited for it.
C12_OneTaskAtATime ==
    /\ [](Cardinality({t \in 1..Len(tasks) : ~tasks[t].done}) <= 1)
    /\ [][ Len(tasks') > Len(tasks)
               => /\ \A t \in 1..Len(tasks) : tasks[t].done
                  /\ pc \notin PollPcs ]_vars

C12_Witness ==
    /\ pc = "tree_poll"
    /\ Len(tasks) = 2
    /\ tasks[1].kind = "_ls_window"
    /\ tasks[1].done
    /\ ~tasks[2].done

\* the steps of a launch-backup turn of the event loop, in order
BackupSteps == << "launch-backup", "done", "result", "get_gui_data", "update", "popup" >>

IsPrefix(s, t) == Len(s) <= Len(t) /\ SubSeq(t, 1, Len(s)) = s

\* C13: in a turn of the event loop started by launch-backup the steps come
\* in the order: backup seen done, result taken, get_gui_data called, state
\* button and snapshot list updated, outcome popup shown; the popup is shown
\* only with all the steps before it made, and when the main window is read
\* again get_gui_data has been called exactly once.
C13_ReloadThenPopup ==
    /\ (events # <<>> /\ events[1] = "launch-backup")
          => /\ IsPrefix(events, BackupSteps)
             /\ pc = "read" => events = BackupSteps
    /\ popup \in {"backup_done", "backup_failed"} <=> events = BackupSteps

C13_Witness ==
    /\ pc = "read"
    /\ popup = "backup_failed"
    /\ events = BackupSteps
    /\ window.state_button = "too_old"

\* C14: the destination event never raises, whatever the config main_gui
\* was given and whatever config the configure event put in its place; it
\* shows the unknown-repository message or a destination string taken from
\* the repository of the current config.
C14_DestinationNeverRaises ==
    events = << "destination" >>
        => /\ pc # "raised"
           /\ \/ popup = "unknown_repo"
              \/ /\ popup = "destination"
                 /\ destination_string.bound
                 /\ "repository" \in DOMAIN config.repo
                 /\ destination_string.value \in
                        { config.repo.repository, split_last(config.repo.repository, "@") }
====
